---- MODULE Spec2Model ----
(***************************************************************************)
(* Threshold alert engine of the Meteorological Data Service.              *)
(*                                                                         *)
(* The model covers services/alert_service.py (rule evaluation, the dedup  *)
(* check before db.add, deactivation, the active-alert query), the alerts  *)
(* table of models.py and the admin endpoints that deactivate alerts and   *)
(* purge old rows.  Metric values and thresholds are floats with a zero    *)
(* fraction in the source; they are integers here.  Timestamps are hours.  *)
(***************************************************************************)
EXTENDS Integers, Sequences, FiniteSets, TLC

\* Python None of a nullable timestamp column or of an Optional[int] argument
\* (all real timestamps and ids are >= 0).
None == -1

(***************************************************************************)
(* Bounds of the model.                                                    *)
(***************************************************************************)
\* Rows the alerts table may hold, counting rows still pending in a session.
MaxAlerts == 2

\* Stored locations (ids are autoincrement keys, starting at 1).
Locs == {1, 2}

\* Bound of the model: rows of the weather_data table.
MaxObservations == 3

\* The two threads that may run evaluate_weather_data at the same time.
Workers == {1, 2}

\* The two request threads that may run deactivate_alert at the same time.
Admins == {1, 2}

\* Sampled instants of the wall clock, in hours.  From 0: 12 is inside the
\* suppression window and 36 past it; from 12, 36 is exactly on its edge.
TimePoints == {0, 12, 36}

\* A later instant, for the cleanup endpoint: the smallest retention period it
\* accepts has passed for rows created at 0 and ends exactly on the rows
\* created at 12.
LateTimePoints == {732}

(***************************************************************************)
(* Threshold catalog and rule evaluation (pure).                           *)
(***************************************************************************)
AlertTypes == {"temperatura_alta", "temperatura_baja", "lluvia_intensa",
               "viento_fuerte", "humedad_alta"}

RiskLevels == {"bajo", "medio", "alto", "critico"}

Metrics == {"temperature_2m", "rain", "windspeed_10m", "relativehumidity_2m"}

DEFAULT_THRESHOLDS ==
    [ temperatura_alta |-> [bajo |-> 30, medio |-> 35, alto |-> 40, critico |-> 45],
      temperatura_baja |-> [bajo |-> 5,  medio |-> 0,  alto |-> -5, critico |-> -10],
      lluvia_intensa   |-> [bajo |-> 10, medio |-> 25, alto |-> 50, critico |-> 100],
      viento_fuerte    |-> [bajo |-> 20, medio |-> 35, alto |-> 50, critico |-> 75],
      humedad_alta     |-> [bajo |-> 80, medio |-> 90, alto |-> 95, critico |-> 98] ]

\* An observation row: the location and the metrics that are not None.
IsNone(weather_data, metric) == metric \notin DOMAIN weather_data.metrics

\* The Alert(...) object a _check_* method builds; id, alert_end, is_active and
\* created_at are filled in by the table when the row is inserted.
NewAlertLowestThreshold(weather_data, alert_type, risk_level, severity, value, t) ==
    [ location_id     |-> weather_data.location_id,
      alert_type      |-> alert_type,
      risk_level      |-> risk_level,
      severity        |-> severity,
      threshold_value |-> DEFAULT_THRESHOLDS[alert_type]["bajo"],
      current_value   |-> value,
      alert_start     |-> t ]

NewAlert(weather_data, alert_type, risk_level, severity, value, t) ==
    [ location_id     |-> weather_data.location_id,
      alert_type      |-> alert_type,
      risk_level      |-> risk_level,
      severity        |-> severity,
      threshold_value |-> DEFAULT_THRESHOLDS[alert_type][risk_level],
      current_value   |-> value,
      alert_start     |-> t ]

\* The if/elif cascade of the high-is-bad checks; "" stands for risk_level None.
CascadeHighStrict(value, thresholds) ==
    IF value > thresholds["critico"] THEN "critico"
    ELSE IF value > thresholds["alto"] THEN "alto"
    ELSE IF value > thresholds["medio"] THEN "medio"
    ELSE IF value > thresholds["bajo"] THEN "bajo"
    ELSE ""

CascadeHigh(value, thresholds) ==
    IF value >= thresholds["critico"] THEN "critico"
    ELSE IF value >= thresholds["alto"] THEN "alto"
    ELSE IF value >= thresholds["medio"] THEN "medio"
    ELSE IF value >= thresholds["bajo"] THEN "bajo"
    ELSE ""

\* The if/elif cascade of _check_temperature_low.
CascadeLow(value, thresholds) ==
    IF value <= thresholds["critico"] THEN "critico"
    ELSE IF value <= thresholds["alto"] THEN "alto"
    ELSE IF value <= thresholds["medio"] THEN "medio"
    ELSE IF value <= thresholds["bajo"] THEN "bajo"
    ELSE ""

\* Each check returns a sequence: <<>> for None, <<alert>> otherwise.
check_temperature_high(weather_data, t) ==
    LET temp == weather_data.metrics["temperature_2m"]
        risk_level == CascadeHigh(temp, DEFAULT_THRESHOLDS["temperatura_alta"])
    IN  IF risk_level # ""
        THEN << NewAlert(weather_data, "temperatura_alta", risk_level,
                         IF risk_level \in {"bajo", "medio"} THEN "warning" ELSE "advisory",
                         temp, t) >>
        ELSE << >>

check_temperature_low(weather_data, t) ==
    LET temp == weather_data.metrics["temperature_2m"]
        risk_level == CascadeLow(temp, DEFAULT_THRESHOLDS["temperatura_baja"])
    IN  IF risk_level # ""
        THEN << NewAlert(weather_data, "temperatura_baja", risk_level,
                         IF risk_level \in {"bajo", "medio"} THEN "warning" ELSE "advisory",
                         temp, t) >>
        ELSE << >>

check_heavy_rain_advisory(weather_data, t) ==
    LET rain == weather_data.metrics["rain"]
        risk_level == CascadeHigh(rain, DEFAULT_THRESHOLDS["lluvia_intensa"])
    IN  IF risk_level # ""
        THEN << NewAlert(weather_data, "lluvia_intensa", risk_level,
                         IF risk_level \in {"alto", "critico"} THEN "advisory" ELSE "warning",
                         rain, t) >>
        ELSE << >>

check_heavy_rain(weather_data, t) ==
    LET rain == weather_data.metrics["rain"]
        risk_level == CascadeHigh(rain, DEFAULT_THRESHOLDS["lluvia_intensa"])
    IN  IF risk_level # ""
        THEN << NewAlert(weather_data, "lluvia_intensa", risk_level,
                         IF risk_level \in {"alto", "critico"} THEN "watch" ELSE "warning",
                         rain, t) >>
        ELSE << >>

check_strong_wind(weather_data, t) ==
    LET wind_speed == weather_data.metrics["windspeed_10m"]
        risk_level == CascadeHigh(wind_speed, DEFAULT_THRESHOLDS["viento_fuerte"])
    IN  IF risk_level # ""
        THEN << NewAlert(weather_data, "viento_fuerte", risk_level,
                         IF risk_level \in {"alto", "critico"} THEN "advisory" ELSE "warning",
                         wind_speed, t) >>
        ELSE << >>

check_high_humidity(weather_data, t) ==
    LET humidity == weather_data.metrics["relativehumidity_2m"]
        risk_level == CascadeHigh(humidity, DEFAULT_THRESHOLDS["humedad_alta"])
    IN  IF risk_level # ""
        THEN << NewAlert(weather_data, "humedad_alta", risk_level, "info", humidity, t) >>
        ELSE << >>

\* The first half of evaluate_weather_data: the list `alerts` before the
\* database loop, in the order the method appends to it.
EvaluateFirstBreach(weather_data, t) ==
    LET temperature == IF ~IsNone(weather_data, "temperature_2m")
                       THEN check_temperature_high(weather_data, t)
                            \o check_temperature_low(weather_data, t)
                       ELSE << >>
    IN  IF temperature # << >> THEN temperature
        ELSE IF ~IsNone(weather_data, "rain") /\ check_heavy_rain(weather_data, t) # << >>
             THEN check_heavy_rain(weather_data, t)
        ELSE IF ~IsNone(weather_data, "windspeed_10m") /\ check_strong_wind(weather_data, t) # << >>
             THEN check_strong_wind(weather_data, t)
        ELSE IF ~IsNone(weather_data, "relativehumidity_2m")
             THEN check_high_humidity(weather_data, t)
        ELSE << >>

EvaluateNoGuard(weather_data, t) ==
    LET full == [m \in Metrics |->
                    IF IsNone(weather_data, m) THEN 0 ELSE weather_data.metrics[m]]
        wd   == [weather_data EXCEPT !.metrics = full]
    IN  check_temperature_high(wd, t) \o check_temperature_low(wd, t)
        \o check_heavy_rain(wd, t) \o check_strong_wind(wd, t)
        \o check_high_humidity(wd, t)

Evaluate(weather_data, t) ==
    (IF ~IsNone(weather_data, "temperature_2m")
       THEN check_temperature_high(weather_data, t) \o check_temperature_low(weather_data, t)
       ELSE << >>)
    \o (IF ~IsNone(weather_data, "rain") THEN check_heavy_rain(weather_data, t) ELSE << >>)
    \o (IF ~IsNone(weather_data, "windspeed_10m") THEN check_strong_wind(weather_data, t) ELSE << >>)
    \o (IF ~IsNone(weather_data, "relativehumidity_2m") THEN check_high_humidity(weather_data, t) ELSE << >>)

\* The checks of evaluate_weather_data in the order it runs them, each with
\* the metric whose `is not None` test guards it.
CheckOrder ==
    << [alert_type |-> "temperatura_alta", metric |-> "temperature_2m"],
       [alert_type |-> "temperatura_baja", metric |-> "temperature_2m"],
       [alert_type |-> "lluvia_intensa",   metric |-> "rain"],
       [alert_type |-> "viento_fuerte",    metric |-> "windspeed_10m"],
       [alert_type |-> "humedad_alta",     metric |-> "relativehumidity_2m"] >>

\* The _check_* method of an alert type.
CheckOf(alert_type, weather_data, t) ==
    CASE alert_type = "temperatura_alta" -> check_temperature_high(weather_data, t)
      [] alert_type = "temperatura_baja" -> check_temperature_low(weather_data, t)
      [] alert_type = "lluvia_intensa"   -> check_heavy_rain(weather_data, t)
      [] alert_type = "viento_fuerte"    -> check_strong_wind(weather_data, t)
      [] alert_type = "humedad_alta"     -> check_high_humidity(weather_data, t)

\* Tables self.thresholds may hold: the defaults, and the defaults with the
\* entry of one alert type missing, for which self.thresholds[alert_type]
\* raises KeyError.
Tables ==
    { DEFAULT_THRESHOLDS,
      [ ty \in AlertTypes \ {"temperatura_alta"} |-> DEFAULT_THRESHOLDS[ty] ],
      [ ty \in AlertTypes \ {"lluvia_intensa"} |-> DEFAULT_THRESHOLDS[ty] ] }

\* The checks from the k-th on, under a table that agrees with the defaults
\* on the entries it has: the list `alerts` when the try block is left, and
\* whether it is left by an exception.  The checks share one try block, so
\* the first that raises ends the evaluation.
RECURSIVE EvaluateFrom(_, _, _, _, _)
EvaluateFrom(table, weather_data, t, k, found) ==
    IF k > Len(CheckOrder) THEN [alerts |-> found, raised |-> FALSE]
    ELSE IF IsNone(weather_data, CheckOrder[k].metric)
         THEN EvaluateFrom(table, weather_data, t, k + 1, found)
    ELSE IF CheckOrder[k].alert_type \notin DOMAIN table
         THEN [alerts |-> found, raised |-> TRUE]
    ELSE EvaluateFrom(table, weather_data, t, k + 1,
                      found \o CheckOf(CheckOrder[k].alert_type, weather_data, t))

(***************************************************************************)
(* State.                                                                  *)
(***************************************************************************)
VARIABLES
    now,           \* datetime.now(), in hours
    alerts,        \* committed rows of the alerts table
    next_id,       \* next value of the primary-key sequence of the table
    pc,            \* per worker: where its evaluate_weather_data call stands
    weather_data,  \* per worker: the observation of its latest call
    candidates,    \* per worker: the local list `alerts` of its latest call
    i,             \* per worker: index of the next candidate of the database loop
    session,       \* per worker: objects passed to db.add and not yet committed
    response,      \* what the latest admin or query call answered
    thresholds,    \* self.thresholds of the AlertService singleton
    admin,         \* per admin thread: where its deactivate_alert call stands
    observations,  \* committed rows of the weather_data table
    locations      \* committed rows of the locations table

vars == << now, alerts, next_id, pc, weather_data, candidates, i, session, response,
           thresholds, admin, observations, locations >>

\* timedelta(hours=24) of the existence query.
SuppressionHours == 24

\* The smallest `days` the cleanup endpoint accepts (Query(90, ge=30, le=365)).
MinCleanupDays == 30

NoObservation == [location_id |-> 0, metrics |-> << >>]

\* An admin thread with no deactivate_alert call open.
NoCall == [pc |-> "idle", alert_id |-> 0, found |-> FALSE, was_active |-> FALSE]

NoResponse == [op |-> "", ok |-> TRUE, status |-> 0, rows |-> {}, count |-> 0]

\* Names are sequences of letters; coordinates are in units of 0.0005
\* degrees.  Location 1 lies on the equator, location 3 within the search
\* tolerance of location 2.
LocationPool ==
    { [id |-> 1, name |-> << "A", "b" >>, latitude |-> 0,  longitude |-> 20],
      [id |-> 2, name |-> << "b" >>,      latitude |-> 10, longitude |-> 20],
      [id |-> 3, name |-> << "c" >>,      latitude |-> 11, longitude |-> 20] }

\* Observations the ingestion path is fed with: no metric, one breach, two
\* breaches at once, and a breach at another location.
CoreObservations ==
    { [location_id |-> 1, metrics |-> << >>],
      [location_id |-> 1, metrics |-> [temperature_2m |-> 46]],
      [location_id |-> 1, metrics |-> [temperature_2m |-> 46, windspeed_10m |-> 80]],
      [location_id |-> 2, metrics |-> [temperature_2m |-> 46]] }

\* The same with a breach of a lower tier at the first location, for the
\* specifications in which evaluations run one after the other.
Observations ==
    CoreObservations \cup { [location_id |-> 1, metrics |-> [temperature_2m |-> 36]] }

\* Observations with one reading each, on both sides of the tiers of every
\* alert type, for the specification of what an alert row records.
RecordObservations ==
    { [location_id |-> 1, metrics |-> (m :> v)] :
        m \in {"temperature_2m"}, v \in {-12, -5, 0, 5, 20, 30, 35, 40, 46} }
    \cup { [location_id |-> 1, metrics |-> ("rain" :> v)] : v \in {5, 10, 100} }
    \cup { [location_id |-> 1, metrics |-> ("windspeed_10m" :> v)] : v \in {20, 75} }
    \cup { [location_id |-> 1, metrics |-> ("relativehumidity_2m" :> v)] : v \in {80, 98} }

\* Observations together with WeatherData.time, the instant the provider
\* recorded them.
TimedObservations ==
    { [location_id |-> obs.location_id, metrics |-> obs.metrics, time |-> t] :
        obs \in CoreObservations, t \in TimePoints }

\* Observations in which each metric is absent or beyond its highest tier.
ConfigObservations ==
    { [location_id |-> 1, metrics |-> t @@ r @@ ws] :
        t \in { << >>, [temperature_2m |-> 46] },
        r \in { << >>, [rain |-> 100] },
        ws \in { << >>, [windspeed_10m |-> 80] } }

\* Observations of the rule-evaluation model: every metric absent, on each
\* side of every tier boundary and exactly on it.
TemperatureValues == {-12, -10, -9, -5, 0, 1, 5, 6, 20, 29, 30, 35, 39, 40, 45, 46}
RainValues == {0, 10, 24, 25, 50, 100}
WindValues == {19, 20, 35, 50, 75}
HumidityValues == {79, 80, 90, 95, 98}

MetricValues == [ temperature_2m      |-> TemperatureValues,
                  rain                |-> RainValues,
                  windspeed_10m       |-> WindValues,
                  relativehumidity_2m |-> HumidityValues ]

\* {<<>>} is the metric being None.
Readings(metric) == { << >> } \cup { (metric :> v) : v \in MetricValues[metric] }

EvalObservations ==
    { [location_id |-> 1, metrics |-> t @@ r @@ ws @@ h] :
        t \in Readings("temperature_2m"), r \in Readings("rain"),
        ws \in Readings("windspeed_10m"), h \in Readings("relativehumidity_2m") }

Init ==
    /\ now = 0
    /\ alerts = {}
    /\ next_id = 1
    /\ pc = [w \in Workers |-> "idle"]
    /\ weather_data = [w \in Workers |-> NoObservation]
    /\ candidates = [w \in Workers |-> << >>]
    /\ i = [w \in Workers |-> 1]
    /\ session = [w \in Workers |-> << >>]
    /\ response = NoResponse
    /\ thresholds = DEFAULT_THRESHOLDS
    /\ admin = [a \in Admins |-> NoCall]
    /\ observations = {}
    /\ locations = { l \in LocationPool : l.id \in Locs }

\* The same with any stored locations.
InitLocation ==
    /\ now = 0
    /\ alerts = {}
    /\ next_id = 1
    /\ pc = [w \in Workers |-> "idle"]
    /\ weather_data = [w \in Workers |-> NoObservation]
    /\ candidates = [w \in Workers |-> << >>]
    /\ i = [w \in Workers |-> 1]
    /\ session = [w \in Workers |-> << >>]
    /\ response = NoResponse
    /\ thresholds = DEFAULT_THRESHOLDS
    /\ admin = [a \in Admins |-> NoCall]
    /\ observations = {}
    /\ locations \in SUBSET LocationPool

\* The same with the service holding any of the tables.
InitConfig ==
    /\ now = 0
    /\ alerts = {}
    /\ next_id = 1
    /\ pc = [w \in Workers |-> "idle"]
    /\ weather_data = [w \in Workers |-> NoObservation]
    /\ candidates = [w \in Workers |-> << >>]
    /\ i = [w \in Workers |-> 1]
    /\ session = [w \in Workers |-> << >>]
    /\ response = NoResponse
    /\ thresholds \in Tables
    /\ admin = [a \in Admins |-> NoCall]
    /\ observations = {}
    /\ locations = { l \in LocationPool : l.id \in Locs }

(***************************************************************************)
(* The alerts table.                                                       *)
(***************************************************************************)
\* INSERT of one Alert object: the table fills in the key, is_active
\* (default=True), alert_end (NULL) and created_at (server_default now()).
Row(alert, id, t) ==
    [ id              |-> id,
      location_id     |-> alert.location_id,
      alert_type      |-> alert.alert_type,
      risk_level      |-> alert.risk_level,
      severity        |-> alert.severity,
      threshold_value |-> alert.threshold_value,
      current_value   |-> alert.current_value,
      alert_start     |-> alert.alert_start,
      alert_end       |-> None,
      is_active       |-> TRUE,
      created_at      |-> t ]

\* The columns an Alert object carries before it is inserted.
AlertOf(row) ==
    [ location_id     |-> row.location_id,
      alert_type      |-> row.alert_type,
      risk_level      |-> row.risk_level,
      severity        |-> row.severity,
      threshold_value |-> row.threshold_value,
      current_value   |-> row.current_value,
      alert_start     |-> row.alert_start ]

\* The existence query of the database loop: .first() is not None.
ExistingAlertAnyState(rows, alert, t) ==
    \E a \in rows :
        /\ a.location_id = alert.location_id
        /\ a.alert_type = alert.alert_type
        /\ a.alert_start >= t - SuppressionHours

ExistingAlertNoCheck(rows, alert, t) == FALSE

ExistingAlertAnyAge(rows, alert, t) ==
    \E a \in rows :
        /\ a.location_id = alert.location_id
        /\ a.alert_type = alert.alert_type
        /\ a.is_active = TRUE

ExistingAlertSameTierOrAbove(rows, alert, t) ==
    \E a \in rows :
        /\ a.location_id = alert.location_id
        /\ a.alert_type = alert.alert_type
        /\ a.is_active = TRUE
        /\ a.alert_start >= t - SuppressionHours
        /\ a.risk_level \in
              CASE alert.risk_level = "bajo" -> {"bajo", "medio", "alto", "critico"}
                [] alert.risk_level = "medio" -> {"medio", "alto", "critico"}
                [] alert.risk_level = "alto" -> {"alto", "critico"}
                [] alert.risk_level = "critico" -> {"critico"}

ExistingAlert(rows, alert, t) ==
    \E a \in rows :
        /\ a.location_id = alert.location_id
        /\ a.alert_type = alert.alert_type
        /\ a.is_active = TRUE
        /\ a.alert_start >= t - SuppressionHours

\* Rows that the open calls may still insert.
InFlight == { w \in Workers : pc[w] # "idle" }

RECURSIVE SumLen(_, _)
SumLen(f, S) ==
    IF S = {} THEN 0
    ELSE LET w == CHOOSE x \in S : TRUE IN Len(f[w]) + SumLen(f, S \ {w})

\* The bound of the model on the table: the call for obs is started only if
\* the table has room for every row the open calls and this one may insert.
HasRoom(obs) ==
    Cardinality(alerts) + SumLen(candidates, InFlight) + Len(Evaluate(obs, now)) <= MaxAlerts

(***************************************************************************)
(* evaluate_weather_data, one action per database round trip.              *)
(***************************************************************************)
\* The rule evaluation with the default table, where no _check_* method
\* raises.  With no candidate the loop and the commit are skipped.
Begin(w, obs) ==
    /\ pc[w] = "idle"
    /\ thresholds = DEFAULT_THRESHOLDS
    /\ LET found == Evaluate(obs, now) IN
        /\ weather_data' = [weather_data EXCEPT ![w] = obs]
        /\ candidates' = [candidates EXCEPT ![w] = found]
        /\ pc' = [pc EXCEPT ![w] = IF found = << >> THEN "return" ELSE "loop"]
    /\ i' = [i EXCEPT ![w] = 1]
    /\ session' = [session EXCEPT ![w] = << >>]
    /\ UNCHANGED << observations, locations, thresholds, admin, now, alerts, next_id, response >>

\* The rule evaluation under whatever table the service holds.  A check that
\* raises sends the call to the except branch with the candidates found so
\* far; nothing was added to the session yet.
BeginConfigured(w, obs) ==
    /\ pc[w] = "idle"
    /\ LET outcome == EvaluateFrom(thresholds, obs, now, 1, << >>) IN
        /\ weather_data' = [weather_data EXCEPT ![w] = obs]
        /\ candidates' = [candidates EXCEPT ![w] = outcome.alerts]
        /\ pc' = [pc EXCEPT ![w] = IF outcome.raised THEN "failed"
                                   ELSE IF outcome.alerts = << >> THEN "return"
                                   ELSE "loop"]
    /\ i' = [i EXCEPT ![w] = 1]
    /\ session' = [session EXCEPT ![w] = << >>]
    /\ UNCHANGED << observations, locations, thresholds, admin, now, alerts, next_id, response >>

\* Such a call that the bound of the model admits.
StartConfigured(w, obs) == HasRoom(obs) /\ BeginConfigured(w, obs)

\* One iteration of `for alert in alerts`: the existence query, then db.add.
CheckExisting(w) ==
    /\ pc[w] = "loop"
    /\ LET alert == candidates[w][i[w]] IN
        session' = [session EXCEPT ![w] =
                       IF ExistingAlert(alerts, alert, now) THEN @ ELSE Append(@, alert)]
    /\ i' = [i EXCEPT ![w] = @ + 1]
    /\ pc' = [pc EXCEPT ![w] = IF i[w] = Len(candidates[w]) THEN "commit" ELSE "loop"]
    /\ UNCHANGED << observations, locations, thresholds, admin, now, alerts, next_id, weather_data, candidates, response >>

CommitSuperseding(w) ==
    /\ pc[w] = "commit"
    /\ alerts' =
           { IF \E k \in 1..Len(session[w]) :
                    /\ session[w][k].location_id = a.location_id
                    /\ session[w][k].alert_type = a.alert_type
               THEN [a EXCEPT !.is_active = FALSE, !.alert_end = now]
               ELSE a : a \in alerts }
           \cup { Row(session[w][k], next_id + k - 1, now) : k \in 1..Len(session[w]) }
    /\ next_id' = next_id + Len(session[w])
    /\ session' = [session EXCEPT ![w] = << >>]
    /\ pc' = [pc EXCEPT ![w] = "return"]
    /\ UNCHANGED << observations, locations, thresholds, admin, now, weather_data, candidates, i, response >>

\* db.commit(): the pending objects are inserted.
Commit(w) ==
    /\ pc[w] = "commit"
    /\ alerts' = alerts \cup
           { Row(session[w][k], next_id + k - 1, now) : k \in 1..Len(session[w]) }
    /\ next_id' = next_id + Len(session[w])
    /\ session' = [session EXCEPT ![w] = << >>]
    /\ pc' = [pc EXCEPT ![w] = "return"]
    /\ UNCHANGED << observations, locations, thresholds, admin, now, weather_data, candidates, i, response >>

\* `return alerts`: the call ends and its locals are gone.
Return(w) ==
    /\ pc[w] = "return"
    /\ pc' = [pc EXCEPT ![w] = "idle"]
    /\ weather_data' = [weather_data EXCEPT ![w] = NoObservation]
    /\ candidates' = [candidates EXCEPT ![w] = << >>]
    /\ i' = [i EXCEPT ![w] = 1]
    /\ UNCHANGED << observations, locations, thresholds, admin, now, alerts, next_id, session, response >>

QueryFailsLosingObservation(w) ==
    /\ pc[w] = "loop"
    /\ session' = [session EXCEPT ![w] = << >>]
    /\ pc' = [pc EXCEPT ![w] = "failed"]
    /\ observations' = { r \in observations :
                            [location_id |-> r.location_id, metrics |-> r.metrics] # weather_data[w] }
    /\ UNCHANGED << locations, thresholds, admin, now, alerts, next_id, weather_data, candidates, i, response >>

QueryFailsEmptyList(w) ==
    /\ pc[w] = "loop"
    /\ session' = [session EXCEPT ![w] = << >>]
    /\ pc' = [pc EXCEPT ![w] = "failed"]
    /\ candidates' = [candidates EXCEPT ![w] = << >>]
    /\ UNCHANGED << observations, locations, thresholds, admin, now, alerts, next_id, weather_data, i, response >>

\* The existence query of an iteration raises (store unavailable, timeout):
\* the except branch logs, db.rollback() discards the objects added so far and
\* the loop is not resumed.
QueryFails(w) ==
    /\ pc[w] = "loop"
    /\ session' = [session EXCEPT ![w] = << >>]
    /\ pc' = [pc EXCEPT ![w] = "failed"]
    /\ UNCHANGED << observations, locations, thresholds, admin, now, alerts, next_id, weather_data, candidates, i, response >>

\* db.commit() raises: nothing is inserted, the except branch rolls back.
CommitFails(w) ==
    /\ pc[w] = "commit"
    /\ session' = [session EXCEPT ![w] = << >>]
    /\ pc' = [pc EXCEPT ![w] = "failed"]
    /\ UNCHANGED << observations, locations, thresholds, admin, now, alerts, next_id, weather_data, candidates, i, response >>

\* `return alerts` after the except branch: the caller receives
\* candidates[w] as from a call without error.
ReturnAfterError(w) ==
    /\ pc[w] = "failed"
    /\ pc' = [pc EXCEPT ![w] = "idle"]
    /\ weather_data' = [weather_data EXCEPT ![w] = NoObservation]
    /\ candidates' = [candidates EXCEPT ![w] = << >>]
    /\ i' = [i EXCEPT ![w] = 1]
    /\ UNCHANGED << observations, locations, thresholds, admin, now, alerts, next_id, session, response >>

\* A call of evaluate_weather_data that the bound of the model admits.
StartEvaluation(w, obs) == HasRoom(obs) /\ Begin(w, obs)

\* collect_current_weather: the row is stored with the provider's
\* recorded_at, which is not in the future, and handed to
\* evaluate_weather_data.
Collect(w, obs) ==
    /\ obs.time <= now
    /\ StartEvaluation(w, obs)

\* The row of the weather_data table for an observation, and the
\* observation of a row.
WeatherRow(obs, id, t) ==
    [ id |-> id, location_id |-> obs.location_id, metrics |-> obs.metrics, created_at |-> t ]

ObsOf(row) == [location_id |-> row.location_id, metrics |-> row.metrics]

\* collect_current_weather up to db.refresh: the provider answered and the
\* observation is added and committed; weather_data[w] is db_weather_data.
\* What the caller answers is left to the caller.
StoreObservation(w, obs) ==
    /\ pc[w] = "idle"
    /\ weather_data[w] = NoObservation
    /\ obs # NoObservation
    /\ observations' = observations \cup
           { WeatherRow(obs, Cardinality(observations) + 1, now) }
    /\ weather_data' = [weather_data EXCEPT ![w] = obs]
    /\ UNCHANGED << locations, thresholds, admin, now, alerts, next_id, pc, candidates, i, session >>

\* Such a call, from the scheduler, that the bounds of the model admit.
StartCollect(w, obs) ==
    /\ Cardinality(observations) < MaxObservations
    /\ HasRoom(obs)
    /\ StoreObservation(w, obs)
    /\ UNCHANGED response

\* collect_current_weather hands db_weather_data to evaluate_weather_data.
\* The return of that call, with or without error, is followed by
\* `return db_weather_data`.
EvaluateStored(w) ==
    /\ weather_data[w] # NoObservation
    /\ Begin(w, weather_data[w])

(***************************************************************************)
(* Lifecycle and query operations of AlertService.                         *)
(***************************************************************************)
\* deactivate_alert: the table after the call and the boolean it returns.
deactivate_alert_keep_end(rows, alert_id, t) ==
    IF \E a \in rows : a.id = alert_id
    THEN [ rows   |-> { IF a.id = alert_id
                          THEN [a EXCEPT !.is_active = FALSE]
                          ELSE a : a \in rows },
           result |-> TRUE ]
    ELSE [ rows |-> rows, result |-> FALSE ]

deactivate_alert_always_true(rows, alert_id, t) ==
    [ rows   |-> { IF a.id = alert_id
                     THEN [a EXCEPT !.is_active = FALSE, !.alert_end = t]
                     ELSE a : a \in rows },
      result |-> TRUE ]

deactivate_alert(rows, alert_id, t) ==
    IF \E a \in rows : a.id = alert_id
    THEN [ rows   |-> { IF a.id = alert_id
                          THEN [a EXCEPT !.is_active = FALSE, !.alert_end = t]
                          ELSE a : a \in rows },
           result |-> TRUE ]
    ELSE [ rows |-> rows, result |-> FALSE ]

\* `if location_id:` of get_active_alerts: None and 0 are both falsy.
Truthy(x) == x # None /\ x # 0

\* get_active_alerts, as the set of rows of the list it returns.
get_active_alerts_unfiltered(rows, location_id) ==
    { a \in rows : Truthy(location_id) => a.location_id = location_id }

get_active_alerts(rows, location_id) ==
    { a \in rows : /\ a.is_active = TRUE
                   /\ Truthy(location_id) => a.location_id = location_id }

\* PATCH /admin/alerts/{alert_id}/deactivate
DeactivateAlert(alert_id) ==
    /\ alerts' = deactivate_alert(alerts, alert_id, now).rows
    /\ response' = LET success == deactivate_alert(alerts, alert_id, now).result IN
                       [ op     |-> "deactivate",
                         ok     |-> success,
                         status |-> IF success THEN 200 ELSE 404,
                         rows   |-> {},
                         count  |-> 0 ]
    /\ UNCHANGED << observations, locations, thresholds, admin, now, next_id, pc, weather_data, candidates, i, session >>

\* deactivate_alert in a request thread of its own, one action per database
\* round trip.  First the lookup `db.query(Alert).filter(...).first()`;
\* was_active is the is_active of the object it loads.
LoadAlert(a, alert_id) ==
    /\ admin[a].pc = "idle"
    /\ admin' = [admin EXCEPT ![a] = [ pc       |-> "loaded",
                                       alert_id |-> alert_id,
                                       found    |-> \E r \in alerts : r.id = alert_id,
                                       was_active |-> \E r \in alerts :
                                                          r.id = alert_id /\ r.is_active ]]
    /\ UNCHANGED << observations, locations, thresholds, now, alerts, next_id, pc, weather_data, candidates, i, session, response >>

\* `if alert:` then the two assignments and db.commit(), which writes them
\* to the row whatever the row holds by now; `return True`.  Without a row,
\* `return False`.
WriteAlert(a) ==
    /\ admin[a].pc = "loaded"
    /\ alerts' = IF admin[a].found
                  THEN { IF r.id = admin[a].alert_id
                           THEN [r EXCEPT !.is_active = FALSE, !.alert_end = now]
                           ELSE r : r \in alerts }
                  ELSE alerts
    /\ admin' = [admin EXCEPT ![a].pc = "done"]
    /\ UNCHANGED << observations, locations, thresholds, now, next_id, pc, weather_data, candidates, i, session, response >>

\* The endpoint answers: 200 when the service returned True, 404 otherwise.
Respond(a) ==
    /\ admin[a].pc = "done"
    /\ response' = [ op     |-> "deactivate",
                     ok     |-> admin[a].found,
                     status |-> IF admin[a].found THEN 200 ELSE 404,
                     rows   |-> {},
                     count  |-> 0 ]
    /\ admin' = [admin EXCEPT ![a] = NoCall]
    /\ UNCHANGED << observations, locations, thresholds, now, alerts, next_id, pc, weather_data, candidates, i, session >>

\* The lookup raises (store unavailable): the except branch logs, rolls back
\* and returns False.
LoadAlertFails(a, alert_id) ==
    /\ admin[a].pc = "idle"
    /\ admin' = [admin EXCEPT ![a] = [ pc         |-> "raised",
                                       alert_id   |-> alert_id,
                                       found      |-> FALSE,
                                       was_active |-> FALSE ]]
    /\ UNCHANGED << observations, locations, thresholds, now, alerts, next_id, pc, weather_data, candidates, i, session, response >>

\* db.commit() raises after the two assignments: db.rollback() discards
\* them, the row is as it was, and the except branch returns False.
WriteAlertFails(a) ==
    /\ admin[a].pc = "loaded"
    /\ admin[a].found
    /\ admin' = [admin EXCEPT ![a].pc = "raised"]
    /\ UNCHANGED << observations, locations, thresholds, now, alerts, next_id, pc, weather_data, candidates, i, session, response >>

\* The endpoint after the except branch of the service: `success` is
\* False, so HTTPException(404) is raised as for an alert that is not there.
RespondAfterError(a) ==
    /\ admin[a].pc = "raised"
    /\ response' = [ op     |-> "deactivate",
                     ok     |-> FALSE,
                     status |-> 404,
                     rows   |-> {},
                     count  |-> 0 ]
    /\ admin' = [admin EXCEPT ![a] = NoCall]
    /\ UNCHANGED << observations, locations, thresholds, now, alerts, next_id, pc, weather_data, candidates, i, session >>

(***************************************************************************)
(* Locations.                                                              *)
(***************************************************************************)
\* The 0.001 degrees of the coordinate search, in units of 0.0005 degrees.
Tolerance == 2

LowerCase(c) == CASE c = "A" -> "a" [] c = "B" -> "b" [] c = "C" -> "c" [] OTHER -> c

\* name ILIKE '%pattern%': the pattern occurs in the name, case ignored; the
\* empty pattern occurs in every name.
Contains(name, pattern) ==
    \E start \in 0..(Len(name) - Len(pattern)) :
        \A k \in 1..Len(pattern) : LowerCase(name[start + k]) = LowerCase(pattern[k])

\* The rows the search of find_or_create_location selects: by coordinates
\* under `if latitude and longitude:`, for which None and 0 are both falsy,
\* and by name otherwise.
MatchingLocations(rows, location_name, latitude, longitude) ==
    IF Truthy(latitude) /\ Truthy(longitude)
    THEN { l \in rows : /\ l.latitude >= latitude - Tolerance
                        /\ l.latitude <= latitude + Tolerance
                        /\ l.longitude >= longitude - Tolerance
                        /\ l.longitude <= longitude + Tolerance }
    ELSE { l \in rows : Contains(l.name, location_name) }

\* find_or_create_location: the ids it may return (None for no location)
\* and the table after the call.  first() names no order, so any selected
\* row may be the one returned.  With no row selected the geocoder is asked;
\* it answers nothing (geocoded = FALSE), or a GeocodeResponse, on which
\* geocoded.get(...) raises AttributeError, caught by the except branch:
\* either way the call returns None and adds no row.
find_or_create_location(rows, location_name, latitude, longitude, geocoded) ==
    LET selected == MatchingLocations(rows, location_name, latitude, longitude) IN
    [ results |-> IF selected # {} THEN { l.id : l \in selected } ELSE {None},
      rows    |-> rows ]

\* The requests the location search is fed with.
RequestNames == { << >>, << "a" >>, << "B" >>, << "z" >> }
RequestLatitudes == { None, 0, 10, 12, 30 }
RequestLongitudes == { None, 20 }

\* A caller of find_or_create_location.
FindOrCreateLocation(location_name, latitude, longitude) ==
    /\ \E geocoded \in BOOLEAN :
         LET outcome == find_or_create_location(locations, location_name,
                                                latitude, longitude, geocoded) IN
         /\ locations' = outcome.rows
         /\ \E id \in outcome.results :
               response' = [ op       |-> "find_or_create_location",
                             name     |-> location_name,
                             latitude |-> latitude,
                             longitude |-> longitude,
                             location |-> id ]
    /\ UNCHANGED << observations, thresholds, admin, now, alerts, next_id, pc, weather_data, candidates, i, session >>

(***************************************************************************)
(* Weather endpoints.                                                      *)
(***************************************************************************)
WeatherEndpoints == { "current", "forecast", "historical" }

\* Query parameters of the requests: nothing at all, one coordinate only, a
\* name that matches and one that does not, coordinates that match, that
\* match nothing, and that lie on the equator.
WeatherQueries ==
    { [name |-> << >>,      latitude |-> None, longitude |-> None],
      [name |-> << >>,      latitude |-> 10,   longitude |-> None],
      [name |-> << "a" >>,  latitude |-> None, longitude |-> None],
      [name |-> << "z" >>,  latitude |-> None, longitude |-> None],
      [name |-> << >>,      latitude |-> 10,   longitude |-> 20],
      [name |-> << >>,      latitude |-> 30,   longitude |-> 20],
      [name |-> << >>,      latitude |-> 0,    longitude |-> 20] }

\* start_date and end_date, which only /historical has.
DateRanges(endpoint) ==
    IF endpoint = "historical"
    THEN { [start_date |-> 0, end_date |-> 12], [start_date |-> 12, end_date |-> 0] }
    ELSE { [start_date |-> None, end_date |-> None] }

\* refresh, which only /current has.
RefreshOptions(endpoint) == IF endpoint = "current" THEN BOOLEAN ELSE { FALSE }

\* What the provider may answer for a location.
ProviderReadings == { << >>, [temperature_2m |-> 46] }

\* `not location_name`: None and the empty string are both falsy, and
\* `location_name or ""` passes both on as the empty string, so << >> stands
\* for either.
NoName(location_name) == location_name = << >>

MissingParamsBoth(location_name, latitude, longitude) ==
    NoName(location_name) /\ latitude = None /\ longitude = None

\* `not location_name and (latitude is None or longitude is None)`.
MissingParams(location_name, latitude, longitude) ==
    NoName(location_name) /\ (latitude = None \/ longitude = None)

\* The answer of an endpoint, with the request it answers and the
\* collaborators the handler has called for it.
WeatherAnswer(endpoint, status, location_name, latitude, longitude, start_date, end_date, touched) ==
    [ op         |-> endpoint,
      status     |-> status,
      name       |-> location_name,
      latitude   |-> latitude,
      longitude  |-> longitude,
      start_date |-> start_date,
      end_date   |-> end_date,
      touched    |-> touched ]

\* GET /weather/current, /forecast and /historical up to the point where
\* the answer is settled: 400 for missing parameters and, for historical,
\* for end_date before start_date; 404 when find_or_create_location returns
\* None; otherwise 200, which for /current is preceded by
\* collect_current_weather with the provider's readings when a refresh is
\* asked for or the location has no observation yet, within the bounds of
\* the model.  start_date and end_date are read by /historical only.
WeatherRequest(w, endpoint, location_name, latitude, longitude, start_date, end_date, refresh, readings) ==
    LET answer(status, touched) ==
            WeatherAnswer(endpoint, status, location_name, latitude, longitude,
                          start_date, end_date, touched)
        quiet == UNCHANGED << observations, locations, thresholds, admin, now, alerts,
                              next_id, pc, weather_data, candidates, i, session >>
    IN
    IF \/ MissingParams(location_name, latitude, longitude)
       \/ (endpoint = "historical" /\ end_date < start_date)
    THEN response' = answer(400, {}) /\ quiet
    ELSE \E id \in find_or_create_location(locations, location_name,
                                            latitude, longitude, TRUE).results :
           IF id = None
           THEN response' = answer(404, {"store", "geocoder"}) /\ quiet
           ELSE IF /\ endpoint = "current"
                   /\ refresh \/ \A r \in observations : r.location_id # id
                THEN LET obs == [location_id |-> id, metrics |-> readings] IN
                     /\ Cardinality(observations) < MaxObservations
                     /\ HasRoom(obs)
                     /\ StoreObservation(w, obs)
                     /\ response' = answer(200, {"store", "provider"})
                ELSE response' = answer(200, {"store"}) /\ quiet

\* A caller of get_active_alerts.
GetActiveAlerts(location_id) ==
    /\ response' = [ op     |-> "get_active_alerts",
                     ok     |-> TRUE,
                     status |-> 0,
                     rows   |-> get_active_alerts(alerts, location_id),
                     count  |-> Cardinality(get_active_alerts(alerts, location_id)) ]
    /\ UNCHANGED << observations, locations, thresholds, admin, now, alerts, next_id, pc, weather_data, candidates, i, session >>

\* The alerts DELETE /admin/cleanup selects.
CleanupSelectionAnyState(rows, days, t) ==
    { a \in rows : a.created_at < t - days * 24 }

CleanupSelection(rows, days, t) ==
    { a \in rows : a.created_at < t - days * 24 /\ a.is_active = FALSE }

\* DELETE /admin/cleanup, for the alerts table.
CleanupOldData(days, dry_run) ==
    /\ alerts' = IF dry_run THEN alerts
                 ELSE alerts \ CleanupSelection(alerts, days, now)
    /\ response' = [ op      |-> "cleanup",
                     ok      |-> TRUE,
                     status  |-> 200,
                     rows    |-> {},
                     count   |-> Cardinality(CleanupSelection(alerts, days, now)),
                     message |-> IF dry_run THEN "preview" ELSE "executed" ]
    /\ UNCHANGED << observations, locations, thresholds, admin, now, next_id, pc, weather_data, candidates, i, session >>

\* DELETE /admin/cleanup with a statement raising (the store unavailable, or
\* a weather row still referenced by an alert): rollback, answered 500.
CleanupFails ==
    /\ response' = [ op      |-> "cleanup",
                     ok      |-> FALSE,
                     status  |-> 500,
                     rows    |-> {},
                     count   |-> 0,
                     message |-> "error" ]
    /\ UNCHANGED << observations, locations, thresholds, admin, now, alerts, next_id, pc, weather_data, candidates, i, session >>

\* The wall clock moves on to a later sampled instant.
Tick ==
    /\ \E t \in TimePoints : t > now /\ now' = t
    /\ UNCHANGED << observations, locations, thresholds, admin, alerts, next_id, pc, weather_data, candidates, i, session, response >>

\* The wall clock moves on by weeks.
TickLate ==
    /\ \E t \in LateTimePoints : t > now /\ now' = t
    /\ UNCHANGED << observations, locations, thresholds, admin, alerts, next_id, pc, weather_data, candidates, i, session, response >>

(***************************************************************************)
(* Statistics.                                                             *)
(***************************************************************************)
\* The windows, in days, the statistics endpoint is asked for.
StatDays == {1, 30}

\* A dict with no key.
EmptyDict == [k \in {} |-> 0]

\* filter(Alert.created_at >= cutoff_date), cutoff_date = now - days.
CreatedSince(rows, days, t) == { a \in rows : a.created_at >= t - days * 24 }

\* dict(query(Alert.alert_type, count(Alert.id)).group_by(Alert.alert_type)).
CountByType(rows) ==
    IF rows = {} THEN EmptyDict
    ELSE [ k \in { a.alert_type : a \in rows } |->
               Cardinality({ a \in rows : a.alert_type = k }) ]

\* dict(query(Alert.risk_level, count(Alert.id)).group_by(Alert.risk_level)).
CountByRisk(rows) ==
    IF rows = {} THEN EmptyDict
    ELSE [ k \in { a.risk_level : a \in rows } |->
               Cardinality({ a \in rows : a.risk_level = k }) ]

\* The rows order_by(count(Alert.id).desc()).first() may answer with: the
\* query names no second sort key, so among the locations with the highest
\* count the database is free to put any one first; no row at all (None)
\* when the window is empty.
MostAffected(rows) ==
    IF rows = {} THEN {None}
    ELSE LET locs == { a.location_id : a \in rows }
             count(l) == Cardinality({ a \in rows : a.location_id = l })
         IN  { l \in locs : \A m \in locs : count(l) >= count(m) }

\* The except branch: every figure zero or empty.
EmptyStatistics ==
    [ op                     |-> "get_alert_statistics",
      total_alerts           |-> 0,
      active_alerts          |-> 0,
      alerts_by_type         |-> EmptyDict,
      alerts_by_risk_level   |-> EmptyDict,
      most_affected_location |-> None ]

\* get_alert_statistics with the active count taken over the whole table.
get_alert_statistics_active_unbounded(rows, days, t, first) ==
    [ op                     |-> "get_alert_statistics",
      total_alerts           |-> Cardinality(CreatedSince(rows, days, t)),
      active_alerts          |-> Cardinality({ a \in rows : a.is_active }),
      alerts_by_type         |-> CountByType(CreatedSince(rows, days, t)),
      alerts_by_risk_level   |-> CountByRisk(CreatedSince(rows, days, t)),
      most_affected_location |-> first ]

\* get_alert_statistics when the store answers; first is the location of
\* the row the most-affected query returned.
get_alert_statistics(rows, days, t, first) ==
    [ op                     |-> "get_alert_statistics",
      total_alerts           |-> Cardinality(CreatedSince(rows, days, t)),
      active_alerts          |-> Cardinality({ a \in CreatedSince(rows, days, t) : a.is_active }),
      alerts_by_type         |-> CountByType(CreatedSince(rows, days, t)),
      alerts_by_risk_level   |-> CountByRisk(CreatedSince(rows, days, t)),
      most_affected_location |-> first ]

\* A caller of get_alert_statistics, the store answering.
GetAlertStatistics(days) ==
    /\ \E first \in MostAffected(CreatedSince(alerts, days, now)) :
           response' = get_alert_statistics(alerts, days, now, first)
    /\ UNCHANGED << observations, locations, thresholds, admin, now, alerts, next_id, pc, weather_data, candidates, i, session >>

\* A caller of get_alert_statistics, one of the queries raising.
GetAlertStatisticsFails(days) ==
    /\ response' = EmptyStatistics
    /\ UNCHANGED << observations, locations, thresholds, admin, now, alerts, next_id, pc, weather_data, candidates, i, session >>

(***************************************************************************)
(* Specifications.                                                         *)
(***************************************************************************)
\* Workers evaluate concurrently; every database round trip is a step.
Next ==
    \/ \E w \in Workers, obs \in CoreObservations : StartEvaluation(w, obs)
    \/ \E w \in Workers : CheckExisting(w)
    \/ \E w \in Workers : Commit(w)
    \/ \E w \in Workers : Return(w)
    \/ \E alert_id \in 1..next_id : DeactivateAlert(alert_id)
    \/ Tick

Spec == Init /\ [][Next]_vars

\* Evaluations of the observations obs_set run one after the other, on one
\* worker.
Sequential(obs_set) ==
    \/ \E obs \in obs_set : StartEvaluation(1, obs)
    \/ CheckExisting(1)
    \/ Commit(1)
    \/ Return(1)
    \/ \E alert_id \in 1..next_id : DeactivateAlert(alert_id)
    \/ Tick

NextSeq == Sequential(Observations)

SpecSeq == Init /\ [][NextSeq]_vars

\* Sequential evaluations together with the admin endpoints, over weeks.
NextAdmin ==
    \/ Sequential(CoreObservations)
    \/ \E dry_run \in BOOLEAN : CleanupOldData(MinCleanupDays, dry_run)
    \/ TickLate

SpecAdmin == Init /\ [][NextAdmin]_vars

\* The same with a cleanup that may fail.
NextCleanup ==
    \/ NextAdmin
    \/ CleanupFails

SpecCleanup == Init /\ [][NextCleanup]_vars

\* Sequential evaluations, deactivation and the active-alert query.
NextQuery ==
    \/ NextSeq
    \/ \E location_id \in {None, 0} \cup Locs : GetActiveAlerts(location_id)

SpecQuery == Init /\ [][NextQuery]_vars

\* Evaluations one after the other whose alerts are persisted, over readings
\* of every metric.
NextRecord ==
    \/ \E obs \in RecordObservations : StartEvaluation(1, obs)
    \/ CheckExisting(1)
    \/ Commit(1)
    \/ Return(1)

SpecRecord == Init /\ [][NextRecord]_vars

\* Rule evaluation alone, over every sampled observation.
NextEval == \E obs \in EvalObservations : Begin(1, obs)

SpecEval == Init /\ [][NextEval]_vars

\* Sequential evaluations, deactivation and the statistics rollup.
NextStats ==
    \/ Sequential(CoreObservations)
    \/ \E days \in StatDays : GetAlertStatistics(days)
    \/ \E days \in StatDays : GetAlertStatisticsFails(days)

SpecStats == Init /\ [][NextStats]_vars

\* Sequential evaluations against a store that may fail.
NextFault ==
    \/ Sequential(CoreObservations)
    \/ QueryFails(1)
    \/ CommitFails(1)
    \/ ReturnAfterError(1)

SpecFault == Init /\ [][NextFault]_vars

\* Sequential evaluations by a service whose table may lack an entry.
NextConfig ==
    \/ \E obs \in ConfigObservations : StartConfigured(1, obs)
    \/ CheckExisting(1)
    \/ Commit(1)
    \/ Return(1)
    \/ ReturnAfterError(1)
    \/ \E alert_id \in 1..next_id : DeactivateAlert(alert_id)
    \/ Tick

SpecConfig == InitConfig /\ [][NextConfig]_vars

\* Sequential evaluations with deactivation requests served concurrently.
NextDeact ==
    \/ \E obs \in CoreObservations : StartEvaluation(1, obs)
    \/ CheckExisting(1)
    \/ Commit(1)
    \/ Return(1)
    \/ Tick
    \/ \E a \in Admins, alert_id \in 1..next_id : LoadAlert(a, alert_id)
    \/ \E a \in Admins : WriteAlert(a)
    \/ \E a \in Admins : Respond(a)

SpecDeact == Init /\ [][NextDeact]_vars

\* Sequential evaluations with one admin whose deactivation requests, for
\* ids of stored alerts and for the id 0 that no alert has, may hit a store
\* error.
NextDeactFault ==
    \/ \E obs \in CoreObservations : StartEvaluation(1, obs)
    \/ CheckExisting(1)
    \/ Commit(1)
    \/ Return(1)
    \/ Tick
    \/ \E alert_id \in 0..(next_id - 1) : LoadAlert(1, alert_id)
    \/ \E alert_id \in 0..(next_id - 1) : LoadAlertFails(1, alert_id)
    \/ WriteAlert(1)
    \/ WriteAlertFails(1)
    \/ Respond(1)
    \/ RespondAfterError(1)

SpecDeactFault == Init /\ [][NextDeactFault]_vars

\* Sequential ingestion of observations that carry their own timestamp.
NextObserved ==
    \/ \E obs \in TimedObservations : Collect(1, obs)
    \/ CheckExisting(1)
    \/ Commit(1)
    \/ Return(1)
    \/ Tick

SpecObserved == Init /\ [][NextObserved]_vars

\* Ingestion by collect_current_weather against a store that may fail.
NextIngest ==
    \/ \E obs \in CoreObservations : StartCollect(1, obs)
    \/ EvaluateStored(1)
    \/ CheckExisting(1)
    \/ Commit(1)
    \/ Return(1)
    \/ QueryFails(1)
    \/ CommitFails(1)
    \/ ReturnAfterError(1)
    \/ Tick

SpecIngest == Init /\ [][NextIngest]_vars

\* Location searches over any stored locations.
NextLocation ==
    \E location_name \in RequestNames, latitude \in RequestLatitudes,
       longitude \in RequestLongitudes :
        FindOrCreateLocation(location_name, latitude, longitude)

SpecLocation == InitLocation /\ [][NextLocation]_vars

\* Requests to the weather endpoints, served one at a time.
NextWeather ==
    \/ \E endpoint \in WeatherEndpoints, q \in WeatherQueries :
            \E dates \in DateRanges(endpoint), refresh \in RefreshOptions(endpoint),
               readings \in IF endpoint = "current" THEN ProviderReadings
                                                   ELSE { << >> } :
                WeatherRequest(1, endpoint, q.name, q.latitude, q.longitude,
                               dates.start_date, dates.end_date, refresh, readings)
    \/ EvaluateStored(1)
    \/ CheckExisting(1)
    \/ Commit(1)
    \/ Return(1)

SpecWeather == Init /\ [][NextWeather]_vars

(***************************************************************************)
(* Properties.                                                             *)
(***************************************************************************)
SameKey(a, b) == a.location_id = b.location_id /\ a.alert_type = b.alert_type

\* Active rows of the (location, alert type) of c that started in the 24
\* hours before t.
RecentActive(rows, c, t) ==
    { a \in rows : SameKey(a, c) /\ a.is_active /\ a.alert_start >= t - 24 }

Elems(seq) == { seq[k] : k \in 1..Len(seq) }

\* C1: when a run of evaluate_weather_data that follows an earlier run
\* completes (its commit) while an active alert of the same location and
\* type that started at most 24 hours ago is in the store, the run adds no
\* row for that location and type, and the store holds exactly one such
\* active alert.
C1_SequentialIdempotence ==
    [][ (pc[1] = "commit" /\ pc'[1] = "return") =>
          \A c \in Elems(candidates[1]) :
              RecentActive(alerts, c, now) # {} =>
                  /\ { a \in alerts' : SameKey(a, c) } = { a \in alerts : SameKey(a, c) }
                  /\ Cardinality(RecentActive(alerts', c, now)) = 1 ]_vars

\* A second run has returned after its candidate was dropped: the alert of
\* the first run is the only active one of its location and type.
C1_Witness ==
    /\ pc[1] = "return"
    /\ \E c \in Elems(candidates[1]) :
          /\ \E a \in alerts : SameKey(a, c) /\ a.is_active /\ a.alert_start < c.alert_start
          /\ Cardinality({ a \in alerts : SameKey(a, c) /\ a.is_active }) = 1

\* C2: no alert is ever inserted while an earlier-inserted alert of the same
\* location and type is active and inside the 24 hours before the insert;
\* that is, the check and the insert of one (location, type) act as one step.
C2_AtomicCheckThenInsert ==
    \A a, b \in alerts :
        ~ ( /\ a.id < b.id
            /\ SameKey(a, b)
            /\ a.is_active /\ b.is_active
            /\ a.alert_start >= b.created_at - 24 )

\* C3: the database loop hands a candidate to db.add exactly when the store
\* holds no active alert of its location and type that started in the last
\* 24 hours, and the commit inserts exactly the candidates handed to db.add.
C3_DedupGateDecision ==
    [][ \A w \in Workers :
          /\ (pc[w] = "loop" /\ i'[w] = i[w] + 1) =>
                LET c == candidates[w][i[w]]
                    blocked == \E a \in alerts :
                                  /\ a.location_id = c.location_id
                                  /\ a.alert_type = c.alert_type
                                  /\ a.is_active
                                  /\ now - a.alert_start <= 24
                IN  /\ ~blocked => session'[w] = Append(session[w], c)
                    /\ blocked => session'[w] = session[w]
          /\ (pc[w] = "commit" /\ pc'[w] = "return") =>
                /\ { AlertOf(r) : r \in alerts' \ alerts } = Elems(session[w])
                /\ Cardinality(alerts' \ alerts) = Len(session[w])
                /\ alerts \subseteq alerts' ]_vars

\* A candidate is about to be committed although the store holds an alert of
\* its location and type from the last 24 hours, because that alert is inactive.
C3_Witness ==
    \E w \in Workers :
        /\ pc[w] = "commit"
        /\ \E c \in Elems(session[w]) : \E a \in alerts :
              SameKey(a, c) /\ ~a.is_active /\ a.alert_start >= now - 24

\* C4: when every active alert of a candidate's location and type started
\* more than 24 hours ago, the candidate is handed to db.add, and the commit
\* inserts it as a new active row and leaves every earlier row as it was.
C4_AdmittedAfterWindow ==
    [][ /\ (pc[1] = "loop" /\ i'[1] = i[1] + 1) =>
              LET c == candidates[1][i[1]]
                  earlier == { a \in alerts : SameKey(a, c) /\ a.is_active }
              IN  (earlier # {} /\ \A a \in earlier : now - a.alert_start > 24)
                      => session'[1] = Append(session[1], c)
        /\ (pc[1] = "commit" /\ pc'[1] = "return") =>
              /\ alerts \subseteq alerts'
              /\ \A c \in Elems(session[1]) :
                    \E r \in alerts' :
                        /\ AlertOf(r) = c
                        /\ r.is_active
                        /\ \A a \in alerts : a.id # r.id ]_vars

\* Two active alerts of one location and type, the later started more than
\* 24 hours after the earlier.
C4_Witness ==
    \E a, b \in alerts :
        /\ SameKey(a, b) /\ a.id < b.id
        /\ a.is_active /\ b.is_active
        /\ b.alert_start - a.alert_start > 24

\* C5: deactivating an alert that is already inactive leaves its alert_end
\* at the time the first deactivation stamped.
C5_EndTimeNotRestamped ==
    [][ \A a \in alerts : ~a.is_active =>
          \A b \in alerts' : b.id = a.id => b.alert_end = a.alert_end ]_vars

\* C6: deactivate_alert for an id no stored alert has returns False, the
\* endpoint answers 404, and the table is unchanged.
C6_DeactivateNotFound ==
    [][ \A alert_id \in 1..next_id :
          ((\A a \in alerts : a.id # alert_id) /\ DeactivateAlert(alert_id)) =>
              /\ response'.ok = FALSE
              /\ response'.status = 404
              /\ alerts' = alerts ]_vars

\* The endpoint has answered 404 while the table holds alerts.
C6_Witness ==
    /\ response.op = "deactivate"
    /\ response.status = 404
    /\ alerts # {}

\* C7: every stored alert is active exactly when it has no alert_end.
C7_ActiveIffNoEnd ==
    \A a \in alerts : a.is_active <=> a.alert_end = None

\* The table holds a deactivated alert next to an active one, after a cleanup
\* that deleted a row.
C7_Witness ==
    /\ \E a \in alerts : ~a.is_active /\ a.alert_end # None
    /\ \E a \in alerts : a.is_active
    /\ Cardinality(alerts) < next_id - 1

\* Severity order of the tiers, the metric each alert type reads and the
\* boundary condition of a tier, as the specification states them.
Rank(risk_level) ==
    CASE risk_level = "bajo" -> 1 [] risk_level = "medio" -> 2
      [] risk_level = "alto" -> 3 [] risk_level = "critico" -> 4

MetricOf(alert_type) ==
    CASE alert_type \in {"temperatura_alta", "temperatura_baja"} -> "temperature_2m"
      [] alert_type = "lluvia_intensa" -> "rain"
      [] alert_type = "viento_fuerte" -> "windspeed_10m"
      [] alert_type = "humedad_alta" -> "relativehumidity_2m"

BoundaryHolds(alert_type, risk_level, value) ==
    IF alert_type = "temperatura_baja"
    THEN value <= DEFAULT_THRESHOLDS[alert_type][risk_level]
    ELSE value >= DEFAULT_THRESHOLDS[alert_type][risk_level]

\* The tiers of a type whose boundary condition holds for a value.
TiersHolding(alert_type, value) ==
    { r \in RiskLevels : BoundaryHolds(alert_type, r, value) }

OfType(seq, alert_type) == { k \in 1..Len(seq) : seq[k].alert_type = alert_type }

\* C8: for every alert type whose metric is present, the call produces no
\* candidate of the type when no tier boundary holds, and otherwise exactly
\* one, of the most severe tier whose boundary holds (boundaries inclusive).
C8_TierSelection ==
    \A w \in Workers : pc[w] # "idle" =>
        \A ty \in AlertTypes : ~IsNone(weather_data[w], MetricOf(ty)) =>
            LET value == weather_data[w].metrics[MetricOf(ty)]
                tiers == TiersHolding(ty, value)
                found == OfType(candidates[w], ty)
            IN  IF tiers = {}
                THEN found = {}
                ELSE /\ Cardinality(found) = 1
                     /\ \A k \in found :
                           /\ candidates[w][k].risk_level \in tiers
                           /\ \A r \in tiers : Rank(r) <= Rank(candidates[w][k].risk_level)

\* A temperature exactly on the critico threshold was classified critico.
C8_Witness ==
    \E k \in 1..Len(candidates[1]) :
        /\ candidates[1][k].alert_type = "temperatura_alta"
        /\ candidates[1][k].current_value = 45
        /\ candidates[1][k].risk_level = "critico"

\* C9: the call produces no candidate of a type whose metric is None, and
\* for an observation with no metric at all it produces no candidate, skips
\* the database loop and the commit, and has added nothing to the session.
C9_AbsentMetricNoCandidate ==
    \A w \in Workers : pc[w] # "idle" =>
        /\ \A ty \in AlertTypes :
              IsNone(weather_data[w], MetricOf(ty)) => OfType(candidates[w], ty) = {}
        /\ DOMAIN weather_data[w].metrics = {} =>
              candidates[w] = << >> /\ pc[w] = "return" /\ session[w] = << >>

\* An observation without temperature but with a breaching wind speed was
\* evaluated: the only candidate is the wind one.
C9_Witness ==
    /\ pc[1] = "loop"
    /\ DOMAIN weather_data[1].metrics = {"windspeed_10m"}
    /\ Len(candidates[1]) = 1
    /\ candidates[1][1].alert_type = "viento_fuerte"

\* C10: get_active_alerts returns exactly the stored active alerts, of the
\* given location when a location id is given and of all locations otherwise.
C10_ActiveAlertsExact ==
    [][ \A location_id \in {None, 0} \cup Locs :
          GetActiveAlerts(location_id) =>
              response'.rows =
                  { a \in alerts : /\ a.is_active
                                   /\ location_id # None => a.location_id = location_id } ]_vars


\* The severity label of an alert type and a risk tier, as the specification
\* tabulates it.
SeverityTable(alert_type, risk_level) ==
    CASE alert_type \in {"temperatura_alta", "temperatura_baja"} ->
            IF risk_level \in {"alto", "critico"} THEN "advisory" ELSE "warning"
      [] alert_type = "lluvia_intensa" ->
            IF risk_level \in {"alto", "critico"} THEN "watch" ELSE "warning"
      [] alert_type = "viento_fuerte" ->
            IF risk_level \in {"alto", "critico"} THEN "advisory" ELSE "warning"
      [] alert_type = "humedad_alta" -> "info"

\* C18: the severity of every candidate is the label the table gives for
\* its alert type and risk tier.
C18_SeverityMapping ==
    \A w \in Workers : \A c \in Elems(candidates[w]) :
        c.severity = SeverityTable(c.alert_type, c.risk_level)

\* Heavy rain of tier alto was labelled watch next to a humidity candidate
\* labelled info.
C18_Witness ==
    /\ \E c \in Elems(candidates[1]) :
          c.alert_type = "lluvia_intensa" /\ c.risk_level = "alto" /\ c.severity = "watch"
    /\ \E c \in Elems(candidates[1]) :
          c.alert_type = "humedad_alta" /\ c.severity = "info"


\* C20: a stored alert changes only in a step of deactivate_alert for its
\* id, which changes nothing but is_active and alert_end; an inactive alert
\* never becomes active again and never loses its alert_end; an evaluation
\* step leaves every stored alert as it was.
C20_OnlyDeactivateWrites ==
    [][ \A a \in alerts : \A b \in alerts' :
          (b.id = a.id /\ b # a) =>
              /\ DeactivateAlert(a.id)
              /\ [b EXCEPT !.is_active = a.is_active, !.alert_end = a.alert_end] = a
              /\ ~b.is_active
              /\ b.alert_end # None ]_vars

\* An alert was deactivated and a later evaluation inserted a new alert of
\* the same location and type next to it.
C20_Witness ==
    \E a, b \in alerts :
        /\ SameKey(a, b) /\ a.id < b.id
        /\ ~a.is_active /\ a.alert_end # None /\ a.alert_end <= b.created_at
        /\ b.is_active


\* The sum of the counts of a dict.
RECURSIVE SumDict(_)
SumDict(d) ==
    IF DOMAIN d = {} THEN 0
    ELSE LET k == CHOOSE x \in DOMAIN d : TRUE
         IN  d[k] + SumDict([ x \in DOMAIN d \ {k} |-> d[x] ])

\* Rows whose start timestamp lies in the trailing window of days.
StartedSince(rows, days, t) == { a \in rows : a.alert_start >= t - days * 24 }

\* C11: a get_alert_statistics call on a window that holds no alert,
\* whether the store answers or one of its queries raises, returns
\* total_alerts = 0, active_alerts = 0, alerts_by_type = {},
\* alerts_by_risk_level = {} and most_affected_location = None.
C11_EmptyWindowZeros ==
    [][ \A days \in StatDays :
          ( /\ GetAlertStatistics(days) \/ GetAlertStatisticsFails(days)
            /\ CreatedSince(alerts, days, now) = {} ) =>
              /\ response'.total_alerts = 0
              /\ response'.active_alerts = 0
              /\ DOMAIN response'.alerts_by_type = {}
              /\ DOMAIN response'.alerts_by_risk_level = {}
              /\ response'.most_affected_location = None ]_vars

\* The statistics of the last day were answered with zeros while the store
\* holds an older alert that is still active.
C11_Witness ==
    /\ response = EmptyStatistics
    /\ CreatedSince(alerts, 1, now) = {}
    /\ \E a \in alerts : a.is_active

\* C12: the figures of get_alert_statistics(days) are taken over exactly
\* the alerts whose alert_start lies in the trailing window: total_alerts
\* counts them all, active_alerts counts the active ones among them (so
\* active_alerts <= total_alerts), and the counts by type and by risk level
\* each sum to total_alerts.
C12_FiguresOverStartWindow ==
    [][ \A days \in StatDays :
          GetAlertStatistics(days) =>
              LET started == StartedSince(alerts, days, now) IN
              /\ response'.total_alerts = Cardinality(started)
              /\ response'.active_alerts = Cardinality({ a \in started : a.is_active })
              /\ response'.active_alerts <= response'.total_alerts
              /\ SumDict(response'.alerts_by_type) = response'.total_alerts
              /\ SumDict(response'.alerts_by_risk_level) = response'.total_alerts ]_vars

\* C13: most_affected_location is the location with the most alerts in the
\* window and, among locations that tie for the most, the one with the
\* smallest id.
C13_TieSmallestId ==
    [][ \A days \in StatDays :
          (GetAlertStatistics(days) /\ CreatedSince(alerts, days, now) # {}) =>
              LET window == CreatedSince(alerts, days, now)
                  count(l) == Cardinality({ a \in window : a.location_id = l })
                  top == { l \in Locs : \A m \in Locs : count(l) >= count(m) }
              IN  /\ response'.most_affected_location \in top
                  /\ \A l \in top : response'.most_affected_location <= l ]_vars


\* The candidate c of a call has a committed row.
Persisted(c) == \E a \in alerts : AlertOf(a) = c

\* C14: when the store fails during the dedup check or the commit inside
\* evaluate_weather_data, the failure reaches the caller and no candidate is
\* reported as created unless its insert was committed: the list a call
\* returns after a store failure holds only candidates with a committed row.
C14_FailureSurfaced ==
    \A w \in Workers :
        pc[w] = "failed" => \A c \in Elems(candidates[w]) : Persisted(c)

\* C15: a persistence error aborts only the candidate being processed: of
\* the candidates of the call that pass the dedup gate, at most that one is
\* left without a row.
C15_OnlyFailingCandidateLost ==
    \A w \in Workers :
        pc[w] = "failed" =>
            Cardinality({ k \in 1..Len(candidates[w]) :
                            /\ ~Persisted(candidates[w][k])
                            /\ ~ExistingAlert(alerts, candidates[w][k], now) }) <= 1


C17_OneCallObservesTransition ==
    [][ \A a, b \in Admins :
          ( /\ a # b
            /\ admin[a].was_active
            /\ admin[b].was_active
            /\ admin[b].pc = "done"
            /\ admin[b].alert_id = admin[a].alert_id
            /\ WriteAlert(a)
            /\ \E r \in alerts : r.id = admin[a].alert_id /\ ~r.is_active ) =>
              /\ alerts' = alerts
              /\ ~admin'[a].found ]_vars


\* C19: the alert_start of every candidate equals the timestamp of the
\* observation it was derived from (every stored observation carries one).
C19_StartIsObservationTime ==
    \A w \in Workers :
        pc[w] # "idle" =>
            \A c \in Elems(candidates[w]) : c.alert_start = weather_data[w].time


\* C21: a stored alert disappears only in a step of the cleanup that is not
\* a dry run, and only if it is inactive and older than the cutoff: no step
\* of an evaluation deletes a row, no step deletes an active row, and a dry
\* run deletes nothing and reports only the count.
C21_OnlyOldInactiveDeleted ==
    [][ LET deleted == { a \in alerts : \A b \in alerts' : b.id # a.id } IN
        /\ \A a \in deleted :
              /\ ~a.is_active
              /\ a.created_at < now - MinCleanupDays * 24
        /\ deleted # {} =>
              /\ response'.op = "cleanup"
              /\ response'.message = "executed"
              /\ response'.count = Cardinality(deleted)
              /\ UNCHANGED << pc, i, session, candidates >>
        /\ CleanupOldData(MinCleanupDays, TRUE) =>
              /\ alerts' = alerts
              /\ response'.count = Cardinality(CleanupSelection(alerts, MinCleanupDays, now)) ]_vars

\* A cleanup has deleted an old inactive alert and left an active alert of
\* the same age in the table.
C21_Witness ==
    /\ response.op = "cleanup"
    /\ response.message = "executed"
    /\ response.count >= 1
    /\ Cardinality(alerts) < next_id - 1
    /\ \E a \in alerts : a.is_active /\ a.created_at < now - MinCleanupDays * 24


\* The observation with every metric but that of the alert type set to None.
OwnMetricOnly(obs, alert_type) ==
    [obs EXCEPT !.metrics =
        [ m \in DOMAIN obs.metrics \cap {MetricOf(alert_type)} |-> obs.metrics[m] ]]

\* C22: one call produces at most one candidate per alert type, and the
\* candidate of a type is the one its own metric alone produces, whatever
\* the other metrics of the observation are: each breached metric has its
\* candidate in the list of the same call.
C22_IndependentMetrics ==
    \A w \in Workers : pc[w] # "idle" =>
        \A ty \in AlertTypes :
            /\ Cardinality(OfType(candidates[w], ty)) <= 1
            /\ { candidates[w][k] : k \in OfType(candidates[w], ty) }
                 = { c \in Elems(Evaluate(OwnMetricOnly(weather_data[w], ty), now)) :
                       c.alert_type = ty }

\* One call produced a candidate for each of four breached metrics.
C22_Witness ==
    /\ Len(candidates[1]) = 4
    /\ \A ty \in {"temperatura_alta", "lluvia_intensa", "viento_fuerte", "humedad_alta"} :
           OfType(candidates[1], ty) # {}


\* C23: a failure of the evaluation or of the persistence of alerts does
\* not crash the ingestion: the call goes on to its return, and from the
\* hand-over of the observation to that return the committed observation
\* rows stay in the table, the row of the observation at hand among them.
C23_FailureKeepsObservation ==
    [][ \A w \in Workers :
          /\ pc[w] # "idle" => observations \subseteq observations'
          /\ pc'[w] = "failed" =>
                \E r \in observations' : ObsOf(r) = weather_data'[w]
          /\ (pc[w] = "failed" /\ pc'[w] # "failed") =>
                /\ pc'[w] = "idle"
                /\ alerts' = alerts
                /\ observations' = observations ]_vars

\* An evaluation with a candidate has failed and its observation is in the
\* table.
C23_Witness ==
    /\ pc[1] = "failed"
    /\ candidates[1] # << >>
    /\ \E r \in observations : ObsOf(r) = weather_data[1]


\* Stored locations within the tolerance of the coordinates of a request.
NearLocations(latitude, longitude) ==
    { l \in locations :
        /\ l.latitude - latitude <= Tolerance /\ latitude - l.latitude <= Tolerance
        /\ l.longitude - longitude <= Tolerance /\ longitude - l.longitude <= Tolerance }

\* C24: a call of find_or_create_location whose coordinates match a stored
\* location within the tolerance, or that has no coordinates and whose
\* name matches one, returns a matching location and creates no row; a call
\* repeated with the same coordinates returns the same id, and a call adds
\* at most one location.
C24_FindOrCreateIdempotent ==
    [][ \A location_name \in RequestNames, latitude \in RequestLatitudes,
           longitude \in RequestLongitudes :
          FindOrCreateLocation(location_name, latitude, longitude) =>
              LET given == latitude # None /\ longitude # None
                  near  == NearLocations(latitude, longitude)
                  named == { l \in locations : Contains(l.name, location_name) }
              IN  /\ (given /\ near # {}) =>
                        /\ response'.location \in { l.id : l \in near }
                        /\ locations' = locations
                  /\ (~given /\ named # {}) =>
                        /\ response'.location \in { l.id : l \in named }
                        /\ locations' = locations
                  /\ ( /\ given
                        /\ response.op = "find_or_create_location"
                        /\ response.latitude = latitude
                        /\ response.longitude = longitude ) =>
                        response'.location = response.location
                  /\ Cardinality(locations') <= Cardinality(locations) + 1 ]_vars


\* ---------------------------------------------------------------------
\* C25.  A weather request with neither a name nor both coordinates is
\* answered 400 without any collaborator or the store being touched, a
\* historical request with end_date before start_date likewise; a request
\* whose location is not found is answered 404; and no request answered
\* 400 or 404 collects an observation or evaluates or stores an alert.
\* ---------------------------------------------------------------------
NeitherNameNorBothCoordinates(r) ==
    r.name = << >> /\ ~ (r.latitude # None /\ r.longitude # None)

EndBeforeStart(r) == r.op = "historical" /\ r.end_date < r.start_date

LocationNotFound(r) ==
    None \in find_or_create_location(locations, r.name, r.latitude,
                                     r.longitude, TRUE).results

ThresholdCrossed(a) ==
    IF a.alert_type = "temperatura_baja"
    THEN a.current_value <= a.threshold_value
    ELSE a.current_value >= a.threshold_value

C26_ThresholdConsistent ==
    \A a \in alerts :
        /\ a.threshold_value = DEFAULT_THRESHOLDS[a.alert_type][a.risk_level]
        /\ ThresholdCrossed(a)

\* A table holding a cold alert above the lowest tier next to an alert of a
\* high-is-bad type above the lowest tier.
C26_Witness ==
    /\ \E a \in alerts : a.alert_type = "temperatura_baja" /\ a.risk_level # "bajo"
    /\ \E a \in alerts : a.alert_type # "temperatura_baja" /\ a.risk_level # "bajo"


\* ---------------------------------------------------------------------
\* C27.  With evaluations run one at a time, no two active alerts of the
\* same location and alert type have start timestamps less than 24 hours
\* apart.
\* ---------------------------------------------------------------------
HoursApart(a, b) ==
    IF a.alert_start >= b.alert_start THEN a.alert_start - b.alert_start
    ELSE b.alert_start - a.alert_start

C27_ActiveAlertsADayApart ==
    \A a \in alerts : \A b \in alerts :
        ( /\ a.id # b.id
          /\ a.is_active /\ b.is_active
          /\ a.location_id = b.location_id
          /\ a.alert_type = b.alert_type ) => HoursApart(a, b) >= SuppressionHours


\* ---------------------------------------------------------------------
\* C28.  While an active alert of a (location, alert type) has its start
\* within the last 24 hours, a candidate of a more severe tier of the same
\* type is dropped by the existence check of the loop, and no step changes
\* the risk_level, threshold_value or current_value of a stored alert.
\* ---------------------------------------------------------------------
MilderActiveAlert(c, a) ==
    /\ a.location_id = c.location_id
    /\ a.alert_type = c.alert_type
    /\ a.is_active
    /\ a.alert_start >= now - 24
    /\ Rank(c.risk_level) > Rank(a.risk_level)

C28_EscalationSuppressed ==
    [][ /\ \A w \in Workers :
             ( /\ pc[w] = "loop"
               /\ i'[w] = i[w] + 1
               /\ \E a \in alerts : MilderActiveAlert(candidates[w][i[w]], a) )
             => /\ session'[w] = session[w]
                /\ alerts' = alerts
        /\ \A a \in alerts : \A b \in alerts' :
             a.id = b.id => /\ b.risk_level = a.risk_level
                            /\ b.threshold_value = a.threshold_value
                            /\ b.current_value = a.current_value ]_vars

\* A call about to return whose more severe candidate was not stored, the
\* milder alert being still active and inside the window.
C28_Witness ==
    \E w \in Workers :
        /\ pc[w] = "return"
        /\ \E k \in 1..Len(candidates[w]) :
             /\ \E a \in alerts : MilderActiveAlert(candidates[w][k], a)
             /\ \A a \in alerts :
                  ( a.location_id = candidates[w][k].location_id
                    /\ a.alert_type = candidates[w][k].alert_type )
                  => a.risk_level # candidates[w][k].risk_level


\* ---------------------------------------------------------------------
\* C29.  The list a call of evaluate_weather_data is about to return is
\* the full list of candidates of its observation, whatever the store did:
\* after a commit, after candidates were dropped by the existence check and
\* after a rollback.
\* ---------------------------------------------------------------------
C29_ReturnsAllCandidates ==
    \A w \in Workers :
        pc[w] \in {"return", "failed"} =>
            \E t \in TimePoints :
                t <= now /\ candidates[w] = Evaluate(weather_data[w], t)

\* A call leaving through the except branch with a candidate that no row
\* of the table holds.
C29_Witness ==
    \E w \in Workers :
        /\ pc[w] = "failed"
        /\ candidates[w] # << >>
        /\ \A k \in 1..Len(candidates[w]) :
              \A a \in alerts : AlertOf(a) # candidates[w][k]


\* ---------------------------------------------------------------------
\* C30.  A deactivation request is answered 404 only when no alert has the
\* requested id, and a call in which the store raised leaves the table as
\* it was.
\* ---------------------------------------------------------------------
C30_NotFoundOnlyWhenAbsent ==
    [][ \A a \in Admins :
          /\ ( /\ admin[a].pc \in {"done", "raised"}
               /\ admin'[a] = NoCall
               /\ response'.status = 404 )
             => \A r \in alerts : r.id # admin[a].alert_id
          /\ ( admin[a].pc # "raised" /\ admin'[a].pc = "raised" )
             => alerts' = alerts ]_vars

====
